---- MODULE Spec2Model ----
(***************************************************************************)
(* A model of the bounded recursive web crawler of urls_list.py:           *)
(* _is_file_url, _get_page_content (fetch with retry and link filter),     *)
(* _recursive_scrape (depth-first traversal over the module-level sets)    *)
(* and scrape_website_to_file (reset, traversal, inventory file).          *)
(*                                                                         *)
(* A URL is the record urlparse gives for it: scheme, netloc, path (a      *)
(* sequence of characters) and fragment.  The web is the environment: what *)
(* a GET of a page answers is chosen when the page is fetched.             *)
(***************************************************************************)
EXTENDS Integers, Sequences, FiniteSets, TLC

VARIABLES
  visited,      \* _visited_urls
  discovered,   \* _all_discovered_urls
  extracted,    \* _all_extracted_content: sequence of [url, text]
  stack,        \* the active calls of _recursive_scrape, innermost last
  args,         \* the arguments of the scrape_website_to_file call
  phase,        \* "idle", "crawling", "done": where scrape_website_to_file is
  fetcher,      \* the active call of _get_page_content
  returned,     \* what scrape_website_to_file returned
  outfile,      \* the lines of the output file, each a URL
  ioFailed,     \* history: writing the output file raised IOError
  fetchCount,   \* history: calls of _get_page_content per URL in this run
  web,          \* history: the anchors of each successfully fetched page
  recursed,     \* history: the URLs passed to a recursive _recursive_scrape call
  anyFailed,    \* history: some call of _get_page_content returned (None, None)
  politeness,   \* history: number of time.sleep(politeness_delay) calls
  site,         \* the site being crawled: the anchors each page may hold
  gotText,      \* history: the URLs whose fetch in this run returned non-empty text
  dl,           \* download_urls.py: the state of download_content_from_urls
  ex,           \* save_extracted_content.py: the state of extract_text_from_html_files_and_save
  heap          \* the list objects of urls_list.py and the references to them

vars == <<visited, discovered, extracted, stack, args, phase, fetcher,
          returned, outfile, ioFailed, fetchCount, web, recursed, anyFailed, politeness, site,
          gotText, dl, ex, heap>>

crawlVars == <<visited, discovered, extracted, stack, args, phase,
               returned, outfile, ioFailed, fetchCount, web, recursed, anyFailed, politeness, site,
               gotText, dl, ex, heap>>

----------------------------------------------------------------------------
(* Bounds of the model. *)

MaxPagesBound == 2      \* max_pages_to_visit ranges over -1 .. MaxPagesBound
MaxDepthBound == 2      \* max_depth ranges over -1 .. MaxDepthBound
MaxRetriesBound == 3    \* max_retries of a direct call ranges over 0 .. MaxRetriesBound
MaxRunDepth == 1        \* max_depth of the runs of a sequence of runs ranges over 0 .. MaxRunDepth
MaxListLen == 2         \* the URL list file of the downloader has up to MaxListLen lines
MaxDlRetries == 2       \* max_retries of the downloader ranges over 1 .. MaxDlRetries
MaxHeld == 1            \* the caller keeps the results of up to MaxHeld earlier runs

----------------------------------------------------------------------------
(* URLs. *)

Url(scheme, netloc, path, fragment) ==
  [scheme |-> scheme, netloc |-> netloc, path |-> path, fragment |-> fragment]

Root == Url("https", "a.test", <<"/">>, "")
P1 == Url("https", "a.test", <<"/", "p", "1">>, "")
P2 == Url("https", "a.test", <<"/", "p", "2">>, "")
P3 == Url("http", "a.test", <<"/", "p", "3">>, "")
ExtX == Url("https", "ext.test", <<"/", "x">>, "")
FilePdf == Url("https", "a.test", <<"/", "f", ".", "P", "D", "F">>, "")
P1Sec == Url("https", "a.test", <<"/", "p", "1">>, "sec")
MailTo == Url("mailto", "", <<"f", "o", "o", "@", "b", "a", "r", ".", "c", "o", "m">>, "")

\* Every resolved href (urljoin then urlparse) a page of some site may hold.
Anchors == {Root, P1, P2, P3, ExtX, FilePdf, P1Sec, MailTo}

StartUrls == {Root}

Urls == Anchors \cup StartUrls

\* A site gives, for each URL, the anchors its page may hold; a GET of the
\* URL answers any subset of them.  MixedSite has an external link, a file,
\* a fragment link, a mail link, a self link and links back; DeepSite has
\* four pages of the host.
SiteOf(pages) == [u \in Urls |-> IF u \in DOMAIN pages THEN pages[u] ELSE {}]

MixedSite ==
  SiteOf(Root :> {P1, ExtX, FilePdf}
         @@ P1 :> {Root, P2, P1Sec, MailTo}
         @@ P2 :> {P1, P2, ExtX})

DeepSite ==
  SiteOf(Root :> {P1, P2}
         @@ P1 :> {P2, Root}
         @@ P2 :> {P3, P1}
         @@ P3 :> {Root, P3})

NoUrl == Url("", "", <<>>, "")

\* The characters of the strings that occur as scheme, netloc or fragment.
Chars(str) ==
  CASE str = "https" -> <<"h", "t", "t", "p", "s">>
    [] str = "http" -> <<"h", "t", "t", "p">>
    [] str = "mailto" -> <<"m", "a", "i", "l", "t", "o">>
    [] str = "a.test" -> <<"a", ".", "t", "e", "s", "t">>
    [] str = "ext.test" -> <<"e", "x", "t", ".", "t", "e", "s", "t">>
    [] str = "sec" -> <<"s", "e", "c">>
    [] OTHER -> <<>>

\* urlunparse / geturl(): the URL as a string, a sequence of characters.
UrlString(u) ==
  LET net == IF u.netloc # "" THEN <<"/", "/">> \o Chars(u.netloc) \o u.path ELSE u.path
      sch == IF u.scheme # "" THEN Chars(u.scheme) \o <<":">> \o net ELSE net
  IN  IF u.fragment # "" THEN sch \o <<"#">> \o Chars(u.fragment) ELSE sch

\* str.startswith
StartsWith(s, prefix) ==
  /\ Len(prefix) <= Len(s)
  /\ \A i \in 1..Len(prefix) : s[i] = prefix[i]

----------------------------------------------------------------------------
(* _is_file_url *)

_FILE_EXTENSIONS ==
  {
    <<".","p","d","f">>, <<".","d","o","c">>, <<".","d","o","c","x">>, <<".","x","l","s">>,
    <<".","x","l","s","x">>, <<".","p","p","t">>, <<".","p","p","t","x">>,
    <<".","z","i","p">>, <<".","r","a","r">>, <<".","t","a","r">>, <<".","g","z">>,
    <<".","b","z","2">>, <<".","7","z">>, <<".","e","x","e">>, <<".","d","m","g">>,
    <<".","a","p","k">>, <<".","j","p","g">>, <<".","j","p","e","g">>, <<".","p","n","g">>,
    <<".","g","i","f">>, <<".","b","m","p">>, <<".","s","v","g">>, <<".","w","e","b","p">>,
    <<".","m","p","3">>, <<".","w","a","v">>, <<".","o","g","g">>, <<".","f","l","a","c">>,
    <<".","m","p","4">>, <<".","a","v","i">>, <<".","m","o","v">>, <<".","w","m","v">>,
    <<".","f","l","v">>, <<".","w","e","b","m">>, <<".","t","x","t">>, <<".","c","s","v">>,
    <<".","j","s","o","n">>, <<".","x","m","l">>, <<".","y","a","m","l">>, <<".","m","d">>,
    <<".","c","s","s">>, <<".","j","s">>, <<".","p","h","p">>, <<".","a","s","p">>,
    <<".","a","s","p","x">>, <<".","j","s","p">>, <<".","c","f","m">>, <<".","c","g","i">>
  }

UpperCase ==
  <<"A","B","C","D","E","F","G","H","I","J","K","L","M",
    "N","O","P","Q","R","S","T","U","V","W","X","Y","Z">>

LowerCase ==
  <<"a","b","c","d","e","f","g","h","i","j","k","l","m",
    "n","o","p","q","r","s","t","u","v","w","x","y","z">>

\* str.lower() on one character
LowerChar(c) ==
  IF \E i \in DOMAIN UpperCase : UpperCase[i] = c
    THEN LowerCase[CHOOSE i \in DOMAIN UpperCase : UpperCase[i] = c]
    ELSE c

\* str.lower()
Lower(s) == [i \in DOMAIN s |-> LowerChar(s[i])]

\* str.endswith
EndsWith(s, suffix) ==
  /\ Len(suffix) <= Len(s)
  /\ \A i \in 1..Len(suffix) : s[Len(s) - Len(suffix) + i] = suffix[i]

_is_file_url(url) ==
  LET path == Lower(url.path)
  IN  \E ext \in _FILE_EXTENSIONS : EndsWith(path, ext)

\* is_file = _is_file_url(link) (line 143), tabulated over the URLs of the model.
is_file[url \in Urls] == _is_file_url(url)

----------------------------------------------------------------------------
(* _get_page_content *)

DefaultMaxRetries == 3

\* Every anchor is kept.
KeepLink_All(parsed_full_url) == TRUE

\* The condition under which an anchor is kept (lines 82-84).
KeepLink(parsed_full_url) ==
  /\ parsed_full_url.scheme \in {"http", "https"}
  /\ parsed_full_url.fragment = ""
  /\ ~StartsWith(UrlString(parsed_full_url), <<"m", "a", "i", "l", "t", "o", ":">>)

\* parsed_full_url._replace(fragment="").geturl()
Normalize(parsed_full_url) == [parsed_full_url EXCEPT !.fragment = ""]

\* found_links after the loop over the anchors of the page (lines 76-86).
FoundLinks(anchors) == {Normalize(a) : a \in {b \in anchors : KeepLink(b)}}

\* list(found_links): the set in some order.
ListsOf(S) ==
  {s \in [1..Cardinality(S) -> S] : \A i, j \in DOMAIN s : i # j => s[i] # s[j]}

Range(s) == {s[i] : i \in DOMAIN s}

\* What a GET of url can answer: the visible text of the page and its anchors.
Texts == {"", "text"}

AnchorSets(url) == SUBSET site[url]

NoResult == [ok |-> FALSE, text |-> "", links |-> <<>>]

NoResponse == [text |-> "", anchors |-> {}]

IdleFetcher ==
  [pc |-> "idle", url |-> NoUrl, max_retries |-> 0, attempt |-> 0, slept |-> 0,
   failures |-> 0, response |-> NoResponse, result |-> NoResult]

\* The call _get_page_content(url, max_retries): before the first attempt.
CallFetcher(url, max_retries) ==
  [IdleFetcher EXCEPT !.pc = "running", !.url = url, !.max_retries = max_retries]

\* A sleep after every failed attempt, the last one too.
SleepAfterFailure_Always(attempt, max_retries) == TRUE

\* The sleep of lines 97-98 after a failed attempt.
SleepAfterFailure(attempt, max_retries) == attempt < max_retries - 1

\* range(max_retries) has a next attempt (line 60).
HasAttempt(f) == f.attempt < f.max_retries

\* An attempt that succeeds, lines 61-88: the call returns (text, links).
AttemptSuccess(f, text, anchors, links) ==
  [f EXCEPT !.pc = "returned",
            !.attempt = @ + 1,
            !.response = [text |-> text, anchors |-> anchors],
            !.result = [ok |-> TRUE, text |-> text, links |-> links]]

\* An attempt that raises (timeout, request error, other), lines 90-98.
AttemptFailure(f) ==
  [f EXCEPT !.attempt = @ + 1,
            !.failures = @ + 1,
            !.slept = IF SleepAfterFailure(f.attempt, f.max_retries) THEN @ + 1 ELSE @]

\* After the last failed attempt the call reports the text of an error page.
AttemptsExhausted_ErrorPage(f) ==
  [f EXCEPT !.pc = "returned", !.result = [ok |-> FALSE, text |-> "text", links |-> <<>>]]

\* The loop is over, lines 100-101: the call returns (None, None).
AttemptsExhausted(f) == [f EXCEPT !.pc = "returned", !.result = NoResult]

----------------------------------------------------------------------------
(* The list objects of urls_list.py. *)

\* A Python list is an object: the caller of scrape_website_to_file and the
\* module may hold references to the same list, and a change made through
\* one is seen through the other.  heap.objects gives the items of each
\* list, heap.content_id the list the global _all_extracted_content is bound
\* to, heap.result the lists the last call returned, and heap.held the
\* results of earlier calls the caller has kept, each with the items its
\* lists had when the call returned.  extracted is the items of
\* heap.objects[heap.content_id].
ObjIds == 1..(2 * MaxHeld + 2)

NoHandles == [content |-> 0, urls |-> 0]

\* The state after the import: line 12 binds _all_extracted_content to a list.
InitialHeap ==
  [objects |-> [id \in ObjIds |-> <<>>], content_id |-> 1,
   result |-> NoHandles, held |-> {}]

\* The lists the caller can still reach.
HeldIds(h) == {r.content : r \in h.held} \cup {r.urls : r \in h.held}

\* The identity of a newly created list: one no reachable list has.
FreshId(h, used) == CHOOSE id \in ObjIds \ used : \A other \in ObjIds \ used : id <= other

\* _all_extracted_content.clear(): the list is emptied in place.
NewList_ClearedInPlace(h) == [h EXCEPT !.objects[h.content_id] = <<>>]

\* Line 180, _all_extracted_content = []: the global is bound to a new list.
NewList(h) ==
  LET id == FreshId(h, HeldIds(h))
  IN  [h EXCEPT !.content_id = id, !.objects[id] = <<>>]

\* The lists no reference reaches are freed.
Collected(h) ==
  [h EXCEPT !.objects = [id \in ObjIds |->
                           IF id \in HeldIds(h) \cup {h.content_id}
                             THEN h.objects[id]
                             ELSE <<>>]]

\* Line 129, _all_extracted_content.append(...): the list the global is bound
\* to now has the given items.
WithContent(h, items) == [h EXCEPT !.objects[h.content_id] = items]

\* Lines 199 and 208: sorted() makes a new list, and the call returns the
\* list _all_extracted_content is bound to and that new list.
Handed(h, sorted_discovered_urls) ==
  LET id == FreshId(h, HeldIds(h) \cup {h.content_id})
  IN  [h EXCEPT !.objects[id] = sorted_discovered_urls,
                !.result = [content |-> h.content_id, urls |-> id]]

----------------------------------------------------------------------------
(* _recursive_scrape *)

Frame(url, depth) ==
  [url |-> url, depth |-> depth, pc |-> "enter", scrape |-> FALSE, links |-> <<>>]

Top == stack[Len(stack)]

SetTop(f) == [stack EXCEPT ![Len(stack)] = f]

Pop == SubSeq(stack, 1, Len(stack) - 1)

\* should_scrape_content without the test of the content limit.
ShouldScrapeContent_NoLimit(current_url, current_depth) ==
  /\ current_url \notin visited
  /\ current_depth <= args.max_depth

\* should_scrape_content without the test of the depth.
ShouldScrapeContent_NoDepthTest(current_url, current_depth) ==
  /\ current_url \notin visited
  /\ Len(extracted) < args.max_pages

\* should_scrape_content (lines 115-119)
ShouldScrapeContent(current_url, current_depth) ==
  /\ current_url \notin visited
  /\ current_depth <= args.max_depth
  /\ Len(extracted) < args.max_pages

\* The URL is not recorded.
AddDiscovered_Skipped(url) == discovered

\* _all_discovered_urls.add(url): lines 113 and 139.
AddDiscovered(url) == discovered \cup {url}

\* The URL is fetched and not marked visited.
MarkVisited_Forgotten(current_url) == visited

\* _visited_urls.add(current_url): lines 125 and 134.
MarkVisited(current_url) == visited \cup {current_url}

\* The politeness delay is slept in the call, before its fetch, for the start
\* URL too.
Enter_SleepsBeforeFetch ==
  /\ phase = "crawling"
  /\ stack # <<>>
  /\ Top.pc = "enter"
  /\ discovered' = AddDiscovered(Top.url)
  /\ LET should_scrape_content == ShouldScrapeContent(Top.url, Top.depth)
     IN  IF should_scrape_content \/ Top.url \notin visited
           THEN /\ visited' = MarkVisited(Top.url)
                /\ politeness' = politeness + 1
                /\ fetcher' = CallFetcher(Top.url, DefaultMaxRetries)
                /\ fetchCount' = [fetchCount EXCEPT ![Top.url] = @ + 1]
                /\ stack' = SetTop([Top EXCEPT !.pc = "fetching",
                                               !.scrape = should_scrape_content])
           ELSE /\ stack' = Pop
                /\ UNCHANGED <<visited, fetcher, fetchCount, politeness>>
  /\ UNCHANGED <<extracted, args, phase, returned, outfile, ioFailed, web,
                 recursed, anyFailed, site, gotText, dl, ex, heap>>

\* Lines 113-135 up to the call of _get_page_content: with should_scrape_content
\* (line 124) or, without it, when the URL is not in _visited_urls (line 133),
\* the URL is marked visited and fetched.  Otherwise found_links stays None and
\* the call returns at line 137.
Enter ==
  /\ phase = "crawling"
  /\ stack # <<>>
  /\ Top.pc = "enter"
  /\ discovered' = AddDiscovered(Top.url)
  /\ LET should_scrape_content == ShouldScrapeContent(Top.url, Top.depth)
     IN  IF should_scrape_content \/ Top.url \notin visited
           THEN /\ visited' = MarkVisited(Top.url)
                /\ fetcher' = CallFetcher(Top.url, DefaultMaxRetries)
                /\ fetchCount' = [fetchCount EXCEPT ![Top.url] = @ + 1]
                /\ stack' = SetTop([Top EXCEPT !.pc = "fetching",
                                               !.scrape = should_scrape_content])
           ELSE /\ stack' = Pop
                /\ UNCHANGED <<visited, fetcher, fetchCount>>
  /\ UNCHANGED <<extracted, args, phase, returned, outfile, ioFailed, web,
                 recursed, anyFailed, politeness, site,
                 gotText, dl, ex, heap>>

\* _get_page_content has returned to _recursive_scrape: lines 126-129 or 135,
\* and the test of line 137.
AfterFetch(result, anchors) ==
  /\ LET text_content == result.text
         found_links == result.links
     IN  /\ extracted' = IF Top.scrape /\ text_content # ""
                           THEN Append(extracted, [url |-> Top.url, text |-> text_content])
                           ELSE extracted
         /\ stack' = IF found_links # <<>>
                       THEN SetTop([Top EXCEPT !.pc = "loop", !.links = found_links])
                       ELSE Pop
         /\ web' = IF result.ok
                     THEN [web EXCEPT ![Top.url] = anchors]
                     ELSE web
         /\ anyFailed' = (anyFailed \/ ~result.ok)
         /\ gotText' = IF text_content # "" THEN gotText \cup {Top.url} ELSE gotText
         /\ heap' = WithContent(heap, extracted')
  /\ UNCHANGED <<visited, discovered, args, phase, returned, outfile, ioFailed, fetchCount,
                 recursed, politeness, site, dl, ex>>

\* _get_page_content returns, with f its final state: to _recursive_scrape
\* when it was called from there, to the caller of a direct call otherwise.
Return(f) ==
  IF stack # <<>>
    THEN /\ AfterFetch(f.result, f.response.anchors)
         /\ fetcher' = IdleFetcher
    ELSE /\ fetcher' = f
         /\ UNCHANGED crawlVars

FetchSuccess ==
  /\ fetcher.pc = "running"
  /\ HasAttempt(fetcher)
  /\ \E text \in Texts, anchors \in AnchorSets(fetcher.url) :
       \E links \in ListsOf(FoundLinks(anchors)) :
         Return(AttemptSuccess(fetcher, text, anchors, links))

FetchFailure ==
  /\ fetcher.pc = "running"
  /\ HasAttempt(fetcher)
  /\ fetcher' = AttemptFailure(fetcher)
  /\ UNCHANGED crawlVars

FetchExhausted ==
  /\ fetcher.pc = "running"
  /\ ~HasAttempt(fetcher)
  /\ Return(AttemptsExhausted(fetcher))

\* The condition of line 145 with the depth test off by one.
ShouldRecurse_DepthInclusive(link, current_depth) ==
  /\ link.netloc = args.base_url_netloc
  /\ ~is_file[link]
  /\ link \notin visited
  /\ current_depth <= args.max_depth

\* The condition of line 145 without the test of _visited_urls.
ShouldRecurse_NoVisitedTest(link, current_depth) ==
  /\ link.netloc = args.base_url_netloc
  /\ ~is_file[link]
  /\ current_depth < args.max_depth

\* The condition of line 145.
ShouldRecurse(link, current_depth) ==
  /\ link.netloc = args.base_url_netloc
  /\ ~is_file[link]
  /\ link \notin visited
  /\ current_depth < args.max_depth

\* The loop without the test of the content limit (lines 146-148): it
\* recurses whether or not the quota is full.
LoopStep_NoQuotaTest ==
  /\ phase = "crawling"
  /\ stack # <<>>
  /\ Top.pc = "loop"
  /\ Top.links # <<>>
  /\ LET link == Head(Top.links)
     IN  /\ discovered' = AddDiscovered(link)
         /\ IF ShouldRecurse(link, Top.depth)
              THEN /\ stack' = Append(SetTop([Top EXCEPT !.links = Tail(@)]),
                                      Frame(link, Top.depth + 1))
                   /\ recursed' = recursed \cup {link}
                   /\ politeness' = politeness + 1
              ELSE /\ stack' = SetTop([Top EXCEPT !.links = Tail(@)])
                   /\ UNCHANGED <<recursed, politeness>>
  /\ UNCHANGED <<visited, extracted, args, phase, fetcher, returned, outfile,
                 ioFailed, fetchCount, web, anyFailed, site,
                 gotText, dl, ex, heap>>

\* One iteration of the loop over found_links: lines 138-152, up to the
\* recursive call, the break, or the next iteration.
LoopStep ==
  /\ phase = "crawling"
  /\ stack # <<>>
  /\ Top.pc = "loop"
  /\ Top.links # <<>>
  /\ LET link == Head(Top.links)
     IN  /\ discovered' = AddDiscovered(link)
         /\ IF ShouldRecurse(link, Top.depth)
              THEN IF Len(extracted) >= args.max_pages
                     THEN /\ stack' = Pop
                          /\ UNCHANGED <<recursed, politeness>>
                     ELSE /\ stack' = Append(SetTop([Top EXCEPT !.links = Tail(@)]),
                                             Frame(link, Top.depth + 1))
                          /\ recursed' = recursed \cup {link}
                          /\ politeness' = politeness + 1
              ELSE /\ stack' = SetTop([Top EXCEPT !.links = Tail(@)])
                   /\ UNCHANGED <<recursed, politeness>>
  /\ UNCHANGED <<visited, extracted, args, phase, fetcher, returned, outfile,
                 ioFailed, fetchCount, web, anyFailed, site,
                 gotText, dl, ex, heap>>

\* The loop over found_links is over: the call returns.
LoopEnd ==
  /\ phase = "crawling"
  /\ stack # <<>>
  /\ Top.pc = "loop"
  /\ Top.links = <<>>
  /\ stack' = Pop
  /\ UNCHANGED <<visited, discovered, extracted, args, phase, fetcher, returned,
                 outfile, ioFailed, fetchCount, web, recursed, anyFailed, politeness, site,
                 gotText, dl, ex, heap>>

----------------------------------------------------------------------------
(* scrape_website_to_file *)

Digits == <<"0", "1", "2", "3", "4", "5", "6", "7", "8", "9">>

IndexIn(seq, c) == CHOOSE i \in DOMAIN seq : seq[i] = c

\* ord(c), for the ASCII characters of URLs.
CodePoint(c) ==
  CASE c \in Range(Digits) -> 47 + IndexIn(Digits, c)
    [] c \in Range(UpperCase) -> 64 + IndexIn(UpperCase, c)
    [] c \in Range(LowerCase) -> 96 + IndexIn(LowerCase, c)
    [] c = "#" -> 35
    [] c = "%" -> 37
    [] c = "&" -> 38
    [] c = "-" -> 45
    [] c = "." -> 46
    [] c = "/" -> 47
    [] c = ":" -> 58
    [] c = "=" -> 61
    [] c = "?" -> 63
    [] c = "@" -> 64
    [] c = "_" -> 95
    [] c = "~" -> 126

\* s < t for Python strings: by code point at the first difference, a proper
\* prefix first.
StrLess(s, t) ==
  \E i \in 1..(Len(t)) :
    /\ \A j \in 1..(i - 1) : j <= Len(s) /\ s[j] = t[j]
    /\ \/ i = Len(s) + 1
       \/ i <= Len(s) /\ CodePoint(s[i]) < CodePoint(t[i])

\* The order of the URLs as strings.
UrlLess[u \in Urls, v \in Urls] == StrLess(UrlString(u), UrlString(v))

\* The URLs of S in ascending string order, least first.
RECURSIVE SortedBySelection(_)
SortedBySelection(S) ==
  IF S = {}
    THEN <<>>
    ELSE LET least == CHOOSE u \in S :
                        \A v \in S \ {u} : UrlLess[u, v]
         IN  <<least>> \o SortedBySelection(S \ {least})

\* Every URL of the model, in ascending string order.
UrlsInOrder == SortedBySelection(Urls)

\* The list in descending order.
Sorted_Descending(S) ==
  LET ascending == SelectSeq(UrlsInOrder, LAMBDA u : u \in S)
  IN  [i \in 1..Len(ascending) |-> ascending[Len(ascending) + 1 - i]]

\* sorted(list(S)) for a set S of URLs: its elements in ascending string order.
Sorted(S) == SelectSeq(UrlsInOrder, LAMBDA u : u \in S)

NoArgs == [start_url |-> NoUrl, base_url_netloc |-> "", max_pages |-> 0, max_depth |-> 0]

NoReturn == [content |-> <<>>, urls |-> <<>>]

\* The set is left as the previous run filled it.
clear_Kept(S) == S

\* set.clear() (lines 178-179)
clear(S) == {}

\* Lines 175-192: the reset and the call of _recursive_scrape at depth 0.
\* The histories of the run start empty with it.
BeginRun(start_url, max_pages_to_visit, max_depth) ==
  /\ visited' = clear(visited)
  /\ discovered' = clear(discovered)
  /\ extracted' = <<>>
  /\ args' = [start_url |-> start_url, base_url_netloc |-> start_url.netloc,
              max_pages |-> max_pages_to_visit, max_depth |-> max_depth]
  /\ stack' = <<Frame(start_url, 0)>>
  /\ phase' = "crawling"
  /\ fetchCount' = [u \in Urls |-> 0]
  /\ web' = [u \in Urls |-> {}]
  /\ recursed' = {}
  /\ anyFailed' = FALSE
  /\ politeness' = 0
  /\ gotText' = {}
  /\ heap' = Collected(NewList([heap EXCEPT !.result = NoHandles]))
  /\ UNCHANGED <<fetcher, returned, outfile, ioFailed, site, dl, ex>>

\* The first call of scrape_website_to_file.
Scrape(start_url, max_pages_to_visit, max_depth) ==
  /\ phase = "idle"
  /\ BeginRun(start_url, max_pages_to_visit, max_depth)

\* A call of scrape_website_to_file after an earlier call has returned.
ScrapeAgain(start_url, max_pages_to_visit, max_depth) ==
  /\ phase = "done"
  /\ BeginRun(start_url, max_pages_to_visit, max_depth)

\* The IOError of the write is not caught: the call ends without a value.
Finish_RaisesOnIOError ==
  /\ phase = "crawling"
  /\ stack = <<>>
  /\ phase' = "done"
  /\ LET sorted_discovered_urls == Sorted(discovered)
     IN  \/ /\ outfile' = sorted_discovered_urls
            /\ ioFailed' = FALSE
            /\ returned' = [content |-> extracted, urls |-> sorted_discovered_urls]
            /\ heap' = Handed(heap, sorted_discovered_urls)
         \/ /\ outfile' = outfile
            /\ ioFailed' = TRUE
            /\ returned' = returned
            /\ heap' = heap
         \/ /\ \E k \in 0..(Len(sorted_discovered_urls) - 1) :
                 outfile' = SubSeq(sorted_discovered_urls, 1, k)
            /\ ioFailed' = TRUE
            /\ returned' = returned
            /\ heap' = heap
  /\ UNCHANGED <<visited, discovered, extracted, stack, args, fetcher,
                 fetchCount, web, recursed, anyFailed, politeness, site,
                 gotText, dl, ex>>

\* Lines 194-208: the traversal is over; the sorted inventory is written,
\* one URL per line, and the results are returned.  open(..., 'w') truncates
\* the file; an IOError at open leaves the file as it was, one at a write
\* leaves the lines written before it.
Finish ==
  /\ phase = "crawling"
  /\ stack = <<>>
  /\ phase' = "done"
  /\ LET sorted_discovered_urls == Sorted(discovered)
     IN  /\ returned' = [content |-> extracted, urls |-> sorted_discovered_urls]
         /\ heap' = Handed(heap, sorted_discovered_urls)
         /\ \/ /\ outfile' = sorted_discovered_urls
               /\ ioFailed' = FALSE
            \/ /\ outfile' = outfile
               /\ ioFailed' = TRUE
            \/ /\ \E k \in 0..(Len(sorted_discovered_urls) - 1) :
                    outfile' = SubSeq(sorted_discovered_urls, 1, k)
               /\ ioFailed' = TRUE
  /\ UNCHANGED <<visited, discovered, extracted, stack, args, fetcher,
                 fetchCount, web, recursed, anyFailed, politeness, site,
                 gotText, dl, ex>>

----------------------------------------------------------------------------
(* The other two programs of the repository, before they are run. *)

\* download_content_from_urls (download_urls.py) before its call: the lines
\* of the URL list still to process, the attempt of the retry loop, the
\* files of the output tree, and the history of requests and of overwrites.
IdleDownloader ==
  [pc |-> "idle", urls |-> <<>>, max_retries |-> 0, attempt |-> 0,
   files |-> {}, requested |-> {}, lost |-> {}]

\* extract_text_from_html_files_and_save (save_extracted_content.py) before
\* its call: the names os.listdir gives, those not yet iterated, the files of
\* the output directory, and the names processed with and without error.
IdleExtractor ==
  [pc |-> "idle", listing |-> {}, todo |-> {}, out |-> {}, done |-> {}, failed |-> {}]

----------------------------------------------------------------------------

Init ==
  /\ visited = {}
  /\ discovered = {}
  /\ extracted = <<>>
  /\ stack = <<>>
  /\ args = NoArgs
  /\ phase = "idle"
  /\ fetcher = IdleFetcher
  /\ returned = NoReturn
  /\ outfile = <<>>
  /\ ioFailed = FALSE
  /\ fetchCount = [u \in Urls |-> 0]
  /\ web = [u \in Urls |-> {}]
  /\ recursed = {}
  /\ anyFailed = FALSE
  /\ politeness = 0
  /\ site \in {MixedSite, DeepSite}
  /\ gotText = {}
  /\ dl = IdleDownloader
  /\ ex = IdleExtractor
  /\ heap = InitialHeap

Next ==
  \/ \E start_url \in StartUrls, max_pages \in -1..MaxPagesBound,
        max_depth \in -1..MaxDepthBound :
       Scrape(start_url, max_pages, max_depth)
  \/ Enter
  \/ FetchSuccess
  \/ FetchFailure
  \/ FetchExhausted
  \/ LoopStep
  \/ LoopEnd
  \/ Finish

Spec == Init /\ [][Next]_vars

\* A step the program takes by itself: the call of scrape_website_to_file,
\* the next statement of a call in progress, or the end of an attempt of a
\* GET that does not succeed (requests.get has a timeout, line 63).
Progress ==
  \/ \E start_url \in StartUrls, max_pages \in -1..MaxPagesBound,
        max_depth \in -1..MaxDepthBound :
       Scrape(start_url, max_pages, max_depth)
  \/ Enter
  \/ FetchFailure
  \/ FetchExhausted
  \/ LoopStep
  \/ LoopEnd
  \/ Finish

\* The site whose pages link in cycles: to themselves, to each other and
\* back to the start URL.
InitLive == Init /\ site = DeepSite

\* The crawl of that site under the scheduling of a sequential program: it
\* does not stop while a step of its own is possible.
SpecLive == InitLive /\ [][Next]_vars /\ WF_vars(Progress)

\* The state after the import of urls_list.py, for a site among sites and an
\* output path that holds the given lines (none when there is no file).
InitOf(sites, lines) ==
  /\ visited = {}
  /\ discovered = {}
  /\ extracted = <<>>
  /\ stack = <<>>
  /\ args = NoArgs
  /\ phase = "idle"
  /\ fetcher = IdleFetcher
  /\ returned = NoReturn
  /\ outfile = lines
  /\ ioFailed = FALSE
  /\ fetchCount = [u \in Urls |-> 0]
  /\ web = [u \in Urls |-> {}]
  /\ recursed = {}
  /\ anyFailed = FALSE
  /\ politeness = 0
  /\ site \in sites
  /\ gotText = {}
  /\ dl = IdleDownloader
  /\ ex = IdleExtractor
  /\ heap = InitialHeap

\* The inventory an earlier program left at the output path: not sorted, a
\* line twice, a URL that is on neither site's start page.
StaleFile == <<P3, Root, Root>>

\* A crawl whose output path holds a file before the call.
InitFile == InitOf({MixedSite, DeepSite}, StaleFile)

SpecFile == InitFile /\ [][Next]_vars

\* A site of three pages: the start page links to two pages, one of which
\* links back.
PairSite ==
  SiteOf(Root :> {P1, P2}
         @@ P1 :> {Root})

\* Any number of calls of scrape_website_to_file, one after the other, on
\* that site, with max_pages_to_visit from 1 and max_depth up to MaxRunDepth.
InitRuns == InitOf({PairSite}, <<>>)

NextRuns ==
  \/ \E start_url \in StartUrls, max_pages \in 1..MaxPagesBound,
        max_depth \in 0..MaxRunDepth :
       \/ Scrape(start_url, max_pages, max_depth)
       \/ ScrapeAgain(start_url, max_pages, max_depth)
  \/ Enter
  \/ FetchSuccess
  \/ FetchFailure
  \/ FetchExhausted
  \/ LoopStep
  \/ LoopEnd
  \/ Finish

SpecRuns == InitRuns /\ [][NextRuns]_vars

\* The caller of scrape_website_to_file keeps the two lists the call that
\* just returned gave it.
Hold ==
  /\ phase = "done"
  /\ heap.result # NoHandles
  /\ heap.result.content \notin HeldIds(heap)
  /\ Cardinality(heap.held) < MaxHeld
  /\ heap' = [heap EXCEPT !.held = @ \cup
                {[content |-> heap.result.content,
                  urls |-> heap.result.urls,
                  content_was |-> heap.objects[heap.result.content],
                  urls_was |-> heap.objects[heap.result.urls]]}]
  /\ UNCHANGED <<visited, discovered, extracted, stack, args, phase, fetcher, returned,
                 outfile, ioFailed, fetchCount, web, recursed, anyFailed, politeness, site,
                 gotText, dl, ex>>

\* A site of two pages that link to each other.
LoopSite ==
  SiteOf(Root :> {P1}
         @@ P1 :> {Root})

\* Calls of scrape_website_to_file one after the other on that site, by a
\* caller that keeps results.
InitHeld == InitOf({LoopSite}, <<>>)

NextHeld ==
  \/ \E start_url \in StartUrls, max_pages \in 1..MaxPagesBound,
        max_depth \in 0..MaxRunDepth :
       \/ Scrape(start_url, max_pages, max_depth)
       \/ ScrapeAgain(start_url, max_pages, max_depth)
  \/ Enter
  \/ FetchSuccess
  \/ FetchFailure
  \/ FetchExhausted
  \/ LoopStep
  \/ LoopEnd
  \/ Finish
  \/ Hold

SpecHeld == InitHeld /\ [][NextHeld]_vars

\* A direct call _get_page_content(url, max_retries) of any URL, for any
\* max_retries, outside a crawl.
InitFetch ==
  /\ visited = {}
  /\ discovered = {}
  /\ extracted = <<>>
  /\ stack = <<>>
  /\ args = NoArgs
  /\ phase = "idle"
  /\ returned = NoReturn
  /\ outfile = <<>>
  /\ ioFailed = FALSE
  /\ fetchCount = [u \in Urls |-> 0]
  /\ web = [u \in Urls |-> {}]
  /\ recursed = {}
  /\ anyFailed = FALSE
  /\ politeness = 0
  /\ site \in {MixedSite, DeepSite}
  /\ gotText = {}
  /\ dl = IdleDownloader
  /\ ex = IdleExtractor
  /\ heap = InitialHeap
  /\ \E url \in Urls, max_retries \in 0..MaxRetriesBound :
       fetcher = CallFetcher(url, max_retries)

NextFetch ==
  \/ FetchSuccess
  \/ FetchFailure
  \/ FetchExhausted

SpecFetch == InitFetch /\ [][NextFetch]_vars

----------------------------------------------------------------------------
(* download_urls.py: sanitize_filename *)

\* A URL of the list file as urlparse splits it: the netloc, the path and the
\* query, each a sequence of characters.
DlUrl(netloc, path, query) == [netloc |-> netloc, path |-> path, query |-> query]

\* allowed_domain (line 135)
allowed_domain ==
  <<"w","w","w",".","m","o","s","d","a","c",".","g","o","v",".","i","n">>

OtherDomain == <<"m","o","s","d","a","c",".","g","o","v",".","i","n">>

DlPage == DlUrl(allowed_domain, <<"/","a","/","p">>, <<>>)
DlPagePhp == DlUrl(allowed_domain, <<"/","b","/","p",".","p","h","p">>, <<>>)
DlPageQuery == DlUrl(allowed_domain, <<"/","a","/","p">>, <<"i","=","1">>)
DlPageQuoted == DlUrl(allowed_domain, <<"/","c","%","2","F","p">>, <<>>)
DlDoc == DlUrl(allowed_domain, <<"/","d",".","p","d","f">>, <<>>)
DlDocDeep == DlUrl(allowed_domain, <<"/","x","/","d",".","p","d","f">>, <<>>)
DlOtherHost == DlUrl(OtherDomain, <<"/","a","/","p">>, <<>>)

\* The lines a URL list file may hold.
DlUrls == {DlPage, DlPagePhp, DlPageQuery, DlPageQuoted, DlDoc, DlDocDeep, DlOtherHost}

\* The character a percent escape stands for, for the escapes of the model.
PercentDecoded(hex) ==
  CASE hex = <<"2","F">> -> "/"
    [] hex = <<"2","E">> -> "."
    [] hex = <<"2","0">> -> " "

IsEscape(s) ==
  /\ Len(s) >= 3
  /\ s[1] = "%"
  /\ <<s[2], s[3]>> \in {<<"2","F">>, <<"2","E">>, <<"2","0">>}

\* urllib.parse.unquote (line 15)
RECURSIVE unquote(_)
unquote(s) ==
  IF s = <<>>
    THEN <<>>
    ELSE IF IsEscape(s)
           THEN <<PercentDecoded(<<s[2], s[3]>>)>> \o unquote(SubSeq(s, 4, Len(s)))
           ELSE <<Head(s)>> \o unquote(Tail(s))

\* str.split(sep)
RECURSIVE Split(_, _)
Split(s, sep) ==
  IF \E i \in DOMAIN s : s[i] = sep
    THEN LET i == CHOOSE k \in DOMAIN s : s[k] = sep /\ \A j \in 1..(k - 1) : s[j] # sep
         IN  <<SubSeq(s, 1, i - 1)>> \o Split(SubSeq(s, i + 1, Len(s)), sep)
    ELSE <<s>>

\* path_segments (line 19)
path_segments(path) == SelectSeq(Split(path, "/"), LAMBDA s : s # <<>>)

\* str.rsplit('.', 1)
RSplitDot(s) ==
  IF \E i \in DOMAIN s : s[i] = "."
    THEN LET i == CHOOSE k \in DOMAIN s : s[k] = "." /\ \A j \in (k + 1)..Len(s) : s[j] # "."
         IN  <<SubSeq(s, 1, i - 1), SubSeq(s, i + 1, Len(s))>>
    ELSE <<s>>

\* str.isalnum, for ASCII
isalnum(s) ==
  /\ s # <<>>
  /\ \A i \in DOMAIN s : s[i] \in Range(Digits) \cup Range(UpperCase) \cup Range(LowerCase)

\* The characters the pattern of line 42 replaces.
InvalidChars == {"\\", "/", ":", "*", "?", "\"", "<", ">", "|"}

\* str.strip(chars)
Strip(s, chars) ==
  IF \A i \in DOMAIN s : s[i] \in chars
    THEN <<>>
    ELSE LET first == CHOOSE k \in DOMAIN s : s[k] \notin chars /\ \A j \in 1..(k - 1) : s[j] \in chars
             last == CHOOSE k \in DOMAIN s : s[k] \notin chars /\ \A j \in (k + 1)..Len(s) : s[j] \in chars
         IN  SubSeq(s, first, last)

\* query_hash (line 30): stands for the first 8 hex digits of the MD5 of the
\* query; here its letters and digits, different for different queries.
query_hash(query) == SelectSeq(query, LAMBDA c : isalnum(<<c>>))

\* sanitize_filename (lines 9-48)
sanitize_filename(url) ==
  LET path == unquote(url.path)
      query == unquote(url.query)
      segments == path_segments(path)
      last == IF segments # <<>> THEN segments[Len(segments)] ELSE unquote(url.netloc)
      hashed == IF query # <<>>
                  THEN IF last # <<>>
                         THEN last \o <<"_">> \o query_hash(query)
                         ELSE <<"i","n","d","e","x","_">> \o query_hash(query)
                  ELSE last
      filename_parts == RSplitDot(hashed)
      stem == IF Len(filename_parts) > 1 /\ isalnum(filename_parts[2])
                THEN filename_parts[1]
                ELSE hashed
      replaced == [i \in DOMAIN stem |-> IF stem[i] \in InvalidChars THEN "_" ELSE stem[i]]
      filename == Strip(replaced, {" ", "."})
  IN  IF filename = <<>> THEN <<"i","n","d","e","x">> ELSE filename

----------------------------------------------------------------------------
(* download_urls.py: download_content_from_urls *)

\* The variables of the crawler of urls_list.py.
crawlerVars ==
  <<visited, discovered, extracted, stack, args, phase, fetcher, returned,
    outfile, ioFailed, fetchCount, web, recursed, anyFailed, politeness, site, gotText,
    heap>>

\* os.path.splitext: the extension starts at the last dot of the last
\* component, unless only dots precede it there.
splitext(p) ==
  LET seps == {k \in DOMAIN p : p[k] = "/"}
      sepIndex == IF seps = {} THEN 0 ELSE CHOOSE k \in seps : \A j \in seps : j <= k
      dots == {k \in (sepIndex + 1)..Len(p) : p[k] = "."}
  IN  IF dots = {}
        THEN <<p, <<>>>>
        ELSE LET dotIndex == CHOOSE k \in dots : \A j \in dots : j <= k
             IN  IF \E j \in (sepIndex + 1)..(dotIndex - 1) : p[j] # "."
                   THEN <<SubSeq(p, 1, dotIndex - 1), SubSeq(p, dotIndex, Len(p))>>
                   ELSE <<p, <<>>>>

\* The Content-Type headers of the responses of the model; "" is a response
\* without the header.
ContentTypes == {"text/html", "application/pdf", ""}

\* mimetypes.guess_extension (line 58), <<>> for None
guess_extension(content_type) ==
  CASE content_type = "text/html" -> <<".","h","t","m","l">>
    [] content_type = "application/pdf" -> <<".","p","d","f">>
    [] OTHER -> <<>>

\* The extension get_content_type_and_extension returns (lines 50-85): no
\* content type of the model reaches a fallback other than the last.
file_extension(url, content_type) ==
  LET ext == guess_extension(content_type)
      url_ext == splitext(url.path)[2]
  IN  IF ext # <<>>
        THEN ext
        ELSE IF url_ext # <<>> THEN Lower(url_ext) ELSE <<".","b","i","n">>

\* The extensions that lines 160-165 send to the documents directory.
OfficeExtensions ==
  {<<".","d","o","c">>, <<".","d","o","c","x">>, <<".","x","l","s">>,
   <<".","x","l","s","x">>, <<".","p","p","t">>, <<".","p","p","t","x">>}

\* target_dir (lines 153-167), for the content types of the model
target_dir(content_type, file_ext) ==
  IF content_type = "text/html"
    THEN "html_pages"
    ELSE IF content_type = "application/pdf" \/ file_ext = <<".","p","d","f">>
           THEN "documents"
           ELSE IF file_ext \in OfficeExtensions THEN "documents" ELSE "other_files"

\* A file of the output tree, with the URL whose response it holds.
DlFile(dir, name, owner) == [dir |-> dir, name |-> name, owner |-> owner]

\* The owner of a file that was in the tree before the call.
Existing == DlUrl(<<>>, <<>>, <<>>)

\* os.path.exists
path_exists(files, dir, name) == \E f \in files : f.dir = dir /\ f.name = name

\* open(path, 'w' or 'wb') and the writes: the file holds the response of url.
WriteFile(files, dir, name, url) ==
  {f \in files : ~(f.dir = dir /\ f.name = name)} \cup {DlFile(dir, name, url)}

\* History: the files of another owner that this write replaces.
Overwritten(files, dir, name, url) ==
  {[dir |-> f.dir, name |-> f.name, of |-> f.owner, by |-> url] :
     f \in {g \in files : g.dir = dir /\ g.name = name /\ g.owner # url}}

\* Lines 198-203: the first of base+ext, base_1+ext, base_2+ext, ... that
\* does not exist.
unique_filename(files, dir, base, ext) ==
  IF ~path_exists(files, dir, base \o ext)
    THEN base \o ext
    ELSE LET Numbered(k) == base \o <<"_", Digits[k + 1]>> \o ext
             counter == CHOOSE k \in 1..9 :
                          /\ ~path_exists(files, dir, Numbered(k))
                          /\ \A j \in 1..(k - 1) : path_exists(files, dir, Numbered(j))
         IN  Numbered(counter)

\* Lines 169-209 on the downloader state d: the response of url, of the given
\* content type, is saved.  For an HTML page the page is written to
\* html_pages and, unless the text extraction raises (it is caught at line
\* 194), its text to text_content; any other response goes to a name that
\* does not exist yet.
SaveResponse(d, url, content_type, text_saved) ==
  LET file_ext == file_extension(url, content_type)
      dir == target_dir(content_type, file_ext)
      base_filename == sanitize_filename(url)
  IN  IF dir = "html_pages"
        THEN LET html == base_filename \o <<".","h","t","m","l">>
                 txt == base_filename \o <<".","t","x","t">>
                 withHtml == WriteFile(d.files, dir, html, url)
                 lostHtml == d.lost \cup Overwritten(d.files, dir, html, url)
             IN  IF text_saved
                   THEN [d EXCEPT !.files = WriteFile(withHtml, "text_content", txt, url),
                                  !.lost = lostHtml \cup Overwritten(withHtml, "text_content", txt, url)]
                   ELSE [d EXCEPT !.files = withHtml, !.lost = lostHtml]
        ELSE LET name == unique_filename(d.files, dir, base_filename, file_ext)
             IN  [d EXCEPT !.files = WriteFile(d.files, dir, name, url),
                           !.lost = d.lost \cup Overwritten(d.files, dir, name, url)]

\* The call of download_content_from_urls (lines 87-132): the lines of the
\* list file, max_retries, and the files the output tree holds.
DlCall(urls, max_retries, existing) ==
  /\ dl.pc = "idle"
  /\ dl' = [IdleDownloader EXCEPT !.pc = "loop", !.urls = urls,
                                  !.max_retries = max_retries, !.files = existing]
  /\ UNCHANGED <<crawlerVars, ex>>

\* Lines 140-143: the URL is of another host and is skipped.
DlSkip ==
  /\ dl.pc = "loop"
  /\ dl.urls # <<>>
  /\ Head(dl.urls).netloc # allowed_domain
  /\ dl' = [dl EXCEPT !.urls = Tail(@)]
  /\ UNCHANGED <<crawlerVars, ex>>

\* Lines 145-211: an attempt whose request succeeds and whose response is
\* saved; the retry loop is left.
DlSaved ==
  /\ dl.pc = "loop"
  /\ dl.urls # <<>>
  /\ Head(dl.urls).netloc = allowed_domain
  /\ dl.attempt < dl.max_retries
  /\ \E content_type \in ContentTypes, text_saved \in BOOLEAN :
       dl' = [SaveResponse(dl, Head(dl.urls), content_type, text_saved)
                EXCEPT !.urls = Tail(@), !.attempt = 0,
                       !.requested = @ \cup {Head(dl.urls)}]
  /\ UNCHANGED <<crawlerVars, ex>>

\* Lines 145-222: an attempt that raises, at the request (nothing is written)
\* or while the response is being saved (the file is there, incomplete).
DlFailed ==
  /\ dl.pc = "loop"
  /\ dl.urls # <<>>
  /\ Head(dl.urls).netloc = allowed_domain
  /\ dl.attempt < dl.max_retries
  /\ \/ dl' = [dl EXCEPT !.attempt = @ + 1, !.requested = @ \cup {Head(dl.urls)}]
     \/ \E content_type \in ContentTypes :
          dl' = [SaveResponse(dl, Head(dl.urls), content_type, FALSE)
                   EXCEPT !.attempt = @ + 1, !.requested = @ \cup {Head(dl.urls)}]
  /\ UNCHANGED <<crawlerVars, ex>>

\* Lines 223-224: the attempts are used up; the next URL.
DlGiveUp ==
  /\ dl.pc = "loop"
  /\ dl.urls # <<>>
  /\ Head(dl.urls).netloc = allowed_domain
  /\ dl.attempt >= dl.max_retries
  /\ dl' = [dl EXCEPT !.urls = Tail(@), !.attempt = 0]
  /\ UNCHANGED <<crawlerVars, ex>>

\* The loop over the list is over: the call returns.
DlReturn ==
  /\ dl.pc = "loop"
  /\ dl.urls = <<>>
  /\ dl' = [dl EXCEPT !.pc = "done"]
  /\ UNCHANGED <<crawlerVars, ex>>

\* The list files of the model: up to MaxListLen lines.
UrlLists == UNION {[1..n -> DlUrls] : n \in 0..MaxListLen}

\* The output tree before the call: empty, or with a page and a document of
\* an earlier download.
ExistingTrees ==
  {{},
   {DlFile("html_pages", <<"p",".","h","t","m","l">>, Existing),
    DlFile("documents", <<"d",".","p","d","f">>, Existing)}}

InitDownload == InitOf({MixedSite}, <<>>)

NextDownload ==
  \/ \E urls \in UrlLists, max_retries \in 1..MaxDlRetries, existing \in ExistingTrees :
       DlCall(urls, max_retries, existing)
  \/ DlSkip
  \/ DlSaved
  \/ DlFailed
  \/ DlGiveUp
  \/ DlReturn

SpecDownload == InitDownload /\ [][NextDownload]_vars

----------------------------------------------------------------------------
(* save_extracted_content.py: extract_text_from_html_files_and_save *)

\* Line 23: the files the loop processes.
IsHtmlName(filename) ==
  \/ EndsWith(filename, <<".","h","t","m","l">>)
  \/ EndsWith(filename, <<".","h","t","m">>)

\* Line 34: the name of the text file of an input file.
output_filename(filename) == splitext(filename)[1] \o <<".","t","x","t">>

\* The names os.listdir may return for the input directory.
FileNames ==
  {<<"a",".","h","t","m","l">>, <<"a",".","h","t","m">>, <<"b",".","h","t","m","l">>,
   <<"a",".","b",".","h","t","m">>, <<".","h","t","m","l">>, <<"c",".","t","x","t">>}

\* Line 37: open(output_filepath, 'w') and the write; the file of that name
\* now holds the text of source (whole, or not if the write raised).
WriteText(out, name, source, complete) ==
  {o \in out : o.name # name} \cup {[name |-> name, source |-> source, complete |-> complete]}

\* Lines 13-22: the input directory exists; os.listdir returns its names.
ExCall(listing) ==
  /\ ex.pc = "idle"
  /\ ex' = [IdleExtractor EXCEPT !.pc = "loop", !.listing = listing, !.todo = listing]
  /\ UNCHANGED <<crawlerVars, dl>>

\* Lines 13-15: the input directory does not exist.
ExNoDirectory ==
  /\ ex.pc = "idle"
  /\ ex' = [IdleExtractor EXCEPT !.pc = "done"]
  /\ UNCHANGED <<crawlerVars, dl>>

\* Line 23 is false: the name is passed over.  os.listdir gives the names in
\* arbitrary order.
ExSkip ==
  /\ ex.pc = "loop"
  /\ \E filename \in ex.todo :
       /\ ~IsHtmlName(filename)
       /\ ex' = [ex EXCEPT !.todo = @ \ {filename}]
  /\ UNCHANGED <<crawlerVars, dl>>

\* Lines 24-39: the file is read and parsed and its text is written.
ExExtract ==
  /\ ex.pc = "loop"
  /\ \E filename \in ex.todo :
       /\ IsHtmlName(filename)
       /\ ex' = [ex EXCEPT !.todo = @ \ {filename},
                           !.done = @ \cup {filename},
                           !.out = WriteText(@, output_filename(filename), filename, TRUE)]
  /\ UNCHANGED <<crawlerVars, dl>>

\* Lines 41-42: an exception while the file is read or parsed (nothing is
\* written) or while the text is written (the output file is open); it is
\* caught and the loop goes on.
ExError ==
  /\ ex.pc = "loop"
  /\ \E filename \in ex.todo :
       /\ IsHtmlName(filename)
       /\ \/ ex' = [ex EXCEPT !.todo = @ \ {filename}, !.failed = @ \cup {filename}]
          \/ ex' = [ex EXCEPT !.todo = @ \ {filename}, !.failed = @ \cup {filename},
                              !.out = WriteText(@, output_filename(filename), filename, FALSE)]
  /\ UNCHANGED <<crawlerVars, dl>>

\* The loop over the listing is over: the function returns.
ExReturn ==
  /\ ex.pc = "loop"
  /\ ex.todo = {}
  /\ ex' = [ex EXCEPT !.pc = "done"]
  /\ UNCHANGED <<crawlerVars, dl>>

InitExtract == InitOf({MixedSite}, <<>>)

NextExtract ==
  \/ \E listing \in SUBSET FileNames : ExCall(listing)
  \/ ExNoDirectory
  \/ ExSkip
  \/ ExExtract
  \/ ExError
  \/ ExReturn

SpecExtract == InitExtract /\ [][NextExtract]_vars

----------------------------------------------------------------------------
(* Helpers of the properties. *)

Max(a, b) == IF a >= b THEN a ELSE b

InRun == phase # "idle"

ExtractedUrls == {extracted[i].url : i \in DOMAIN extracted}

NoUrlTwice ==
  \A i, j \in DOMAIN extracted : extracted[i].url = extracted[j].url => i = j

\* The links _get_page_content returned for a page it fetched successfully.
LinksOf(u) == FoundLinks(web[u])

Fetched == {u \in Urls : fetchCount[u] > 0}

----------------------------------------------------------------------------
(* C1 *)

\* C1 as stated: in every state of a crawl run extractedContent has at most
\* maxPages entries and no URL in two entries.  It fails for a negative
\* maxPages, where the sequence stays empty and 0 > maxPages.
C1_AtMostMaxPages ==
  InRun => Len(extracted) <= args.max_pages /\ NoUrlTwice

\* C1, amended: in every state of a crawl run extractedContent has at most
\* max(maxPages, 0) entries, and no URL appears in two entries.
C1_AtMostMaxPagesOrNone ==
  InRun => Len(extracted) <= Max(args.max_pages, 0) /\ NoUrlTwice

\* A run that filled a quota of two pages.
C1_Witness ==
  /\ phase = "done"
  /\ args.max_pages = 2
  /\ Len(extracted) = 2
  /\ web[P2] # {}

----------------------------------------------------------------------------
(* C2 *)

\* C2: in every state of a crawl run visited is a subset of discovered, and
\* a URL passed to _get_page_content is in discovered when the call is made
\* (and so in every later state of the run).
C2_VisitedDiscovered ==
  InRun =>
    /\ visited \subseteq discovered
    /\ (stack # <<>> /\ fetcher.pc = "running") => fetcher.url \in discovered
    /\ Fetched \subseteq discovered

\* The fetch of a page reached by a recursive call is under way.
C2_Witness ==
  /\ Len(stack) = 3
  /\ fetcher.pc = "running"
  /\ fetcher.url = P2
  /\ fetcher.attempt = 1
  /\ visited = {Root, P1, P2}

----------------------------------------------------------------------------
(* C3 *)

\* C3: in one crawl run _get_page_content is called at most once for a URL,
\* and a URL is in visited exactly when a call has been made for it.
C3_FetchedAtMostOnce ==
  InRun =>
    /\ \A u \in Urls : fetchCount[u] <= 1
    /\ visited = Fetched

\* A finished run over pages with a self link, a link back to the start and
\* a link to a page that links back.
C3_Witness ==
  /\ phase = "done"
  /\ Root \in web[P1]
  /\ P2 \in web[P1]
  /\ P2 \in web[P2]
  /\ P1 \in web[P2]

----------------------------------------------------------------------------
(* C4 *)

\* A page of the crawled host: same netloc as the start URL, no file extension.
HostPage(u) == u.netloc = args.base_url_netloc /\ ~is_file[u]

\* The pages of the host within k links of the start URL, through pages of
\* the host, in the link graph the fetches showed.
RECURSIVE WithinDistance(_)
WithinDistance(k) ==
  IF k = 0
    THEN {args.start_url}
    ELSE LET near == WithinDistance(k - 1)
         IN  near \cup {l \in UNION {LinksOf(u) : u \in near} : HostPage(l)}

\* C4: when a run ends in which every fetch succeeded and the content quota
\* was never exhausted, every page of the host whose shortest link distance
\* from the start URL is at most maxDepth was fetched, and every link of
\* such a page is in discovered.
C4_AllWithinDepthFetched ==
  (phase = "done" /\ ~anyFailed /\ Len(extracted) < args.max_pages
     /\ args.max_depth >= 0) =>
    \A u \in WithinDistance(args.max_depth) :
      u \in Fetched /\ LinksOf(u) \subseteq discovered

----------------------------------------------------------------------------
(* C5 *)

\* C5: when a run ends, every link that a successful fetch of the run
\* returned is in discovered and in the returned URL list (stated for the
\* runs with a quota of at least one page).
C5_EveryReturnedLinkDiscovered ==
  (phase = "done" /\ args.max_pages >= 1) =>
    \A u \in Urls : LinksOf(u) \subseteq discovered /\ LinksOf(u) \subseteq Range(returned.urls)

----------------------------------------------------------------------------
(* C6 *)

\* C6: when a run ends, every returned link of another host or with a file
\* extension is in discovered, was never the argument of a recursive call
\* and (unless it is the start URL itself) was never fetched; only links of
\* the host without a file extension were recursed into (stated for the
\* runs with a quota of at least one page).
C6_LeavesRecordedNotFetched ==
  (phase = "done" /\ args.max_pages >= 1) =>
    /\ \A u \in Urls : \A link \in LinksOf(u) :
         ~HostPage(link) =>
           /\ link \in discovered
           /\ link \notin recursed
           /\ link # args.start_url => link \notin Fetched
    /\ \A link \in recursed : HostPage(link)

\* The part of C6 that does not say the link is in discovered.
C6_LeavesNotFetched ==
  InRun =>
    /\ \A link \in (recursed \cup (Fetched \ {args.start_url})) : HostPage(link)

----------------------------------------------------------------------------
(* C7 *)

\* C7: with maxDepth = 0 no recursive call is made, the start URL is the
\* only URL fetched, extractedContent holds at most the entry of the start
\* URL, and when the run ends the links of the start page are in discovered.
C7_DepthZero ==
  (InRun /\ args.max_depth = 0) =>
    /\ recursed = {}
    /\ Len(stack) <= 1
    /\ Fetched \subseteq {args.start_url}
    /\ Len(extracted) <= 1
    /\ ExtractedUrls \subseteq {args.start_url}
    /\ phase = "done" => LinksOf(args.start_url) \subseteq discovered

\* A finished run with maxDepth = 0 whose start page had text, a page link,
\* an external link and a file link.
C7_Witness ==
  /\ phase = "done"
  /\ args.max_depth = 0
  /\ Len(extracted) = 1
  /\ web[Root] = {P1, ExtX, FilePdf}
  /\ discovered = {Root, P1, ExtX, FilePdf}

----------------------------------------------------------------------------
(* C8 *)

HttpScheme(u) == u.scheme \in {"http", "https"}

\* C8: when _get_page_content succeeds on a page with an http(s) anchor that
\* carries a fragment, the URL with the fragment stripped is among the links
\* it returns.
C8_FragmentStripped ==
  (fetcher.pc = "returned" /\ fetcher.result.ok) =>
    \A a \in fetcher.response.anchors :
      (HttpScheme(a) /\ a.fragment # "") =>
        Normalize(a) \in Range(fetcher.result.links)

----------------------------------------------------------------------------
(* C9 *)

\* C9: in every state of a crawl run, every link that _get_page_content
\* handed to the traversal, and every element of discovered other than the
\* start URL, has scheme http or https and an empty fragment; a mailto link
\* is in neither.
C9_OnlyHttpNoFragment ==
  InRun =>
    /\ \A i \in DOMAIN stack : \A link \in Range(stack[i].links) :
         HttpScheme(link) /\ link.fragment = ""
    /\ \A u \in discovered \ {args.start_url} :
         HttpScheme(u) /\ u.fragment = ""
    /\ MailTo \notin discovered

\* A finished run that fetched a page holding a mail link and a fragment
\* link beside a link that was kept.
C9_Witness ==
  /\ phase = "done"
  /\ web[P1] = {MailTo, P1Sec, P2}
  /\ P2 \in discovered

----------------------------------------------------------------------------
(* C10 *)

Min(a, b) == IF a <= b THEN a ELSE b

\* C10: for max_retries >= 1, a call of _get_page_content makes at most
\* max_retries attempts and returns at its first successful one with the text
\* and the links of that response; the delays slept are the failed attempts
\* that another attempt followed, so max_retries - 1 when only the last
\* attempt succeeds, and none is slept after the last attempt.
C10_Retry ==
  (fetcher.pc # "idle" /\ fetcher.max_retries >= 1) =>
    /\ fetcher.attempt <= fetcher.max_retries
    /\ fetcher.failures <= fetcher.attempt
    /\ fetcher.slept = Min(fetcher.failures, fetcher.max_retries - 1)
    /\ fetcher.pc = "running" => fetcher.failures = fetcher.attempt
    /\ (fetcher.pc = "returned" /\ fetcher.result.ok) =>
         /\ fetcher.attempt = fetcher.failures + 1
         /\ fetcher.slept = fetcher.failures
         /\ fetcher.result.text = fetcher.response.text
         /\ Range(fetcher.result.links) = FoundLinks(fetcher.response.anchors)
         /\ fetcher.failures = fetcher.max_retries - 1 =>
              fetcher.slept = fetcher.max_retries - 1
    /\ (fetcher.pc = "returned" /\ ~fetcher.result.ok) =>
         /\ fetcher.failures = fetcher.max_retries
         /\ fetcher.slept = fetcher.max_retries - 1

\* A call with max_retries = 3 that failed twice and succeeded on its last
\* attempt.
C10_Witness ==
  /\ fetcher.pc = "returned"
  /\ fetcher.result.ok
  /\ fetcher.max_retries = 3
  /\ fetcher.failures = 2
  /\ fetcher.slept = 2
  /\ fetcher.result.text = "text"
  /\ fetcher.result.links = <<P1, ExtX>>

----------------------------------------------------------------------------
(* C11 *)

\* C11: when the call of _get_page_content made by the traversal has failed
\* on all of its attempts, it returns the failure outcome and the traversal
\* takes it as no text and no links: the step appends nothing to
\* extractedContent, adds nothing to discovered, leaves the URL in visited,
\* raises nothing (the run is still crawling) and returns to the caller's
\* loop, whose remaining links are as they were.
C11_FailedFetchIsEmpty ==
  [][(stack # <<>> /\ fetcher.pc = "running" /\ fetcher.attempt >= fetcher.max_retries) =>
       /\ fetcher.url = Top.url
       /\ Top.url \in visited'
       /\ visited' = visited
       /\ extracted' = extracted
       /\ discovered' = discovered
       /\ gotText' = gotText
       /\ web' = web
       /\ anyFailed'
       /\ phase' = "crawling"
       /\ stack' = Pop
       /\ fetcher' = IdleFetcher]_vars

\* A finished run in which the fetch of /p1 failed and the loop of the start
\* page went on to /p2, whose text was extracted.
C11_Witness ==
  /\ phase = "done"
  /\ anyFailed
  /\ site = DeepSite
  /\ visited = {Root, P1, P2}
  /\ gotText = {Root, P2}
  /\ ExtractedUrls = {Root, P2}
  /\ web[P1] = {}
  /\ P1 \in discovered

----------------------------------------------------------------------------
(* C12 *)

\* C12: every crawl run terminates, whatever the link graph, maxDepth,
\* maxPages and the fetch outcomes: every recursive call is made at the depth
\* of its caller plus one, from a caller at a depth below maxDepth, on a URL
\* that is not in visited; the calls in progress are never more than
\* max(maxDepth, 0) + 1; and the run reaches the point where
\* scrape_website_to_file returns.
C12_Terminates ==
  /\ [][(stack # <<>> /\ Len(stack') > Len(stack)) =>
          LET callee == stack'[Len(stack')]
          IN  /\ Len(stack') = Len(stack) + 1
              /\ callee.pc = "enter"
              /\ callee.depth = Top.depth + 1
              /\ Top.depth < args.max_depth
              /\ callee.url \notin visited]_vars
  /\ [](InRun => Len(stack) <= Max(args.max_depth, 0) + 1)
  /\ <>(phase = "done")

\* A finished run over a graph with cycles that recursed to depth 2 and left
\* a page beyond the depth limit unvisited.
C12_Witness ==
  /\ phase = "done"
  /\ args.max_depth = 2
  /\ recursed = {P1, P2}
  /\ Root \in web[P1]
  /\ P1 \in web[P2]
  /\ P3 \in web[P2]
  /\ P3 \notin visited

----------------------------------------------------------------------------
(* C13 *)

\* The links the successful fetches of the current run returned.
LinksOfRun == UNION {LinksOf(u) : u \in Urls}

\* C13: every call of scrape_website_to_file starts with visited, discovered
\* and extractedContent empty, so in any sequence of calls a run holds only
\* what it recorded itself: discovered is the start URL and links its own
\* fetches returned, every entry of extractedContent is a text one of its own
\* fetches returned, the returned values are those sets; and a URL the run
\* visits is fetched in this run, the start URL always, whether or not an
\* earlier run had fetched it.
C13_FreshRun ==
  /\ [][(phase # "crawling" /\ phase' = "crawling") =>
          visited' = {} /\ discovered' = {} /\ extracted' = <<>>]_vars
  /\ [](InRun =>
          /\ discovered \subseteq {args.start_url} \cup LinksOfRun
          /\ ExtractedUrls \subseteq gotText
          /\ visited = Fetched
          /\ (stack = <<>> \/ stack[1].pc # "enter") => fetchCount[args.start_url] = 1
          /\ phase = "done" =>
               /\ Range(returned.urls) = discovered
               /\ returned.content = extracted)

\* A later run has ended: the file of an earlier run, which had found /p1
\* and /p2, is still there because this run could not write it, and this run
\* fetched the start URL again, found and returned it alone, its text the
\* only entry.
C13_Witness ==
  /\ phase = "done"
  /\ ioFailed
  /\ outfile = <<Root, P1, P2>>
  /\ discovered = {Root}
  /\ returned.urls = <<Root>>
  /\ ExtractedUrls = {Root}
  /\ fetchCount[Root] = 1

----------------------------------------------------------------------------
(* C14 *)

\* C14: when a run has ended and the write of the inventory succeeded, the
\* lines of the output file are exactly the URLs of discovered, each once,
\* in ascending string order, whatever the file held before; and the URL
\* list returned is that same sequence.
C14_FileIsSortedInventory ==
  (phase = "done" /\ ~ioFailed) =>
    /\ Range(outfile) = discovered
    /\ Len(outfile) = Cardinality(discovered)
    /\ \A i, j \in DOMAIN outfile :
         i < j => UrlLess[outfile[i], outfile[j]]
    /\ returned.urls = outfile

\* A finished run at depth 0 whose file, which held three stale lines, now
\* holds the start URL and its three links in string order.
C14_Witness ==
  /\ phase = "done"
  /\ ~ioFailed
  /\ args.max_depth = 0
  /\ discovered = {Root, P1, ExtX, FilePdf}
  /\ outfile = <<Root, FilePdf, P1, ExtX>>
  /\ returned.urls = <<Root, FilePdf, P1, ExtX>>

----------------------------------------------------------------------------
(* C15 *)

\* C15: when the write of the inventory file has failed with an IOError the
\* call has still returned, and what it returned is what it returns after a
\* successful write: the extractedContent sequence, and the URLs of
\* discovered, each once, in ascending string order.
C15_ReturnsDespiteIOError ==
  (phase = "done" /\ ioFailed) =>
    /\ returned.content = extracted
    /\ Range(returned.urls) = discovered
    /\ Len(returned.urls) = Cardinality(discovered)
    /\ \A i, j \in DOMAIN returned.urls :
         i < j => UrlLess[returned.urls[i], returned.urls[j]]

\* A finished run whose write failed after the first line: two pages and at
\* least three URLs are returned, the file holds one line.
C15_Witness ==
  /\ phase = "done"
  /\ ioFailed
  /\ Len(returned.content) = 2
  /\ Len(returned.urls) >= 3
  /\ outfile = <<returned.urls[1]>>

----------------------------------------------------------------------------
(* C16 *)

\* A recursive call has been made and has not yet reached its fetch.
CallPending == Len(stack) > 1 /\ Top.pc = "enter"

\* C16: in every state of a run the politeness delays slept so far are as
\* many as the recursive calls made so far, and as many as the fetches of
\* URLs other than the start URL plus the one recursive call that has not
\* yet fetched; so none is slept before the fetch of the start URL, exactly
\* one between a fetch and the next fetch, and none anywhere else.
C16_OneDelayPerDescent ==
  InRun =>
    /\ politeness = Cardinality(recursed)
    /\ politeness = Cardinality(Fetched \ {args.start_url})
                      + (IF CallPending THEN 1 ELSE 0)
    /\ Fetched = {} => politeness = 0
    /\ recursed \cap {args.start_url} = {}

\* A finished run that fetched the four pages of the site: three recursive
\* calls, three delays.
C16_Witness ==
  /\ phase = "done"
  /\ Fetched = {Root, P1, P2, P3}
  /\ recursed = {P1, P2, P3}
  /\ politeness = 3

----------------------------------------------------------------------------
(* C19 *)

\* The condition of C19 at the start of the innermost call: its URL is not in
\* visited, its depth is at most maxDepth and the quota is not full.
Eligible ==
  /\ Top.url \notin visited
  /\ Top.depth <= args.max_depth
  /\ Len(extracted) < args.max_pages

\* C19: a call of _recursive_scrape decides at its start, by that condition,
\* whether it extracts; an entry (url, text) is appended exactly at the
\* return of the fetch of a call that so decided, when the fetch returned
\* non-empty text, and extractedContent changes at no other step of a run;
\* and when maxDepth >= 0 every call in progress has a depth in 0..maxDepth,
\* so no page is extracted at a greater depth.
C19_AppendedExactlyWhenEligible ==
  /\ [][(stack # <<>> /\ Top.pc = "enter" /\ stack' # stack) =>
          IF Len(stack') = Len(stack)
            THEN stack'[Len(stack)].scrape = Eligible
            ELSE ~Eligible]_vars
  /\ [][(stack # <<>> /\ Top.pc = "fetching") =>
          IF Top.scrape /\ Top.url \in gotText'
            THEN /\ Top.url \notin gotText
                 /\ \E text \in Texts \ {""} :
                      extracted' = Append(extracted, [url |-> Top.url, text |-> text])
            ELSE extracted' = extracted]_vars
  /\ [][(phase = "crawling" /\ (stack = <<>> \/ Top.pc # "fetching")) =>
          extracted' = extracted]_vars
  /\ [](InRun /\ args.max_depth >= 0 =>
          \A i \in DOMAIN stack :
            /\ stack[i].depth = i - 1
            /\ stack[i].depth <= args.max_depth
            /\ stack[i].scrape => stack[i].url \in visited)

\* A finished run to depth 2: the start page and /p2 returned text and were
\* extracted, /p1 was fetched with success and empty text and was not.
C19_Witness ==
  /\ phase = "done"
  /\ args.max_depth = 2
  /\ recursed = {P1, P2}
  /\ web[P1] # {}
  /\ gotText = {Root, P2}
  /\ extracted = <<[url |-> Root, text |-> "text"], [url |-> P2, text |-> "text"]>>

----------------------------------------------------------------------------
(* C20 *)

\* The link is of the crawled host, has no file extension, is not in visited
\* and is found at a depth below maxDepth.
Recursable(link) ==
  /\ link.netloc = args.base_url_netloc
  /\ ~is_file[link]
  /\ link \notin visited
  /\ Top.depth < args.max_depth

\* What C20 says of a step taken when the quota is full: no fetch is made or
\* in progress and no call is made; a loop in progress adds its next link to
\* discovered and stops there when the link is one it would recurse into.
QuotaFullStep ==
  /\ fetcher = IdleFetcher
  /\ fetcher' = fetcher
  /\ fetchCount' = fetchCount
  /\ visited' = visited
  /\ recursed' = recursed
  /\ politeness' = politeness
  /\ Len(stack') <= Len(stack)
  /\ (stack # <<>> /\ Top.pc = "loop" /\ Top.links # <<>>) =>
       LET link == Head(Top.links)
       IN  /\ link \in discovered'
           /\ IF Recursable(link)
                THEN stack' = Pop
                ELSE stack' = SetTop([Top EXCEPT !.links = Tail(@)])

\* C20 as stated: from the state where extractedContent has maxPages entries
\* on, every step of the run is such a step.  It fails for maxPages <= 0,
\* where the quota is full from the start and the start URL is still fetched.
C20_NoFetchOnceQuotaFull ==
  [][(phase = "crawling" /\ Len(extracted) >= args.max_pages) => QuotaFullStep]_vars

\* C20, amended: in a run with maxPages >= 1, from the state where
\* extractedContent has maxPages entries on, every step of the run is such a
\* step.
C20_NoFetchOnceQuotaFilled ==
  [][(phase = "crawling" /\ args.max_pages >= 1 /\ Len(extracted) >= args.max_pages) =>
       QuotaFullStep]_vars

\* A finished run with maxPages = 1: the start page filled the quota; its
\* loop added the external link, then /p1, stopped there without a call, and
\* never reached the file link.
C20_Witness ==
  /\ phase = "done"
  /\ args.max_pages = 1
  /\ args.max_depth >= 1
  /\ ExtractedUrls = {Root}
  /\ web[Root] = {P1, ExtX, FilePdf}
  /\ discovered = {Root, ExtX, P1}
  /\ Fetched = {Root}
  /\ recursed = {}

----------------------------------------------------------------------------
(* C17 *)

\* The half of C17 about the requests: a request is sent only for a URL whose
\* netloc is the allowed host.
C17_OnlyAllowedHost ==
  \A url \in dl.requested : url.netloc = allowed_domain

\* The part of C17 the naming does keep: a response that is not an HTML page
\* never replaces a file.
C17_OtherFilesNotOverwritten ==
  \A l \in dl.lost : l.dir \in {"html_pages", "text_content"}

\* C17: download_content_from_urls requests only URLs of the allowed host,
\* and no file it saves replaces a file saved for another URL of the run or a
\* file that was in the output tree before the call.
C17_NoFileOverwritten ==
  /\ \A url \in dl.requested : url.netloc = allowed_domain
  /\ dl.lost = {}

----------------------------------------------------------------------------
(* C18 *)

\* The half of C18 about failures: when the function returns, every .html or
\* .htm name of the listing was processed, whatever failed before or after it.
C18_FailureDoesNotStopOthers ==
  ex.pc = "done" =>
    \A filename \in ex.listing :
      IsHtmlName(filename) => filename \in ex.done \cup ex.failed

\* What the naming does give: one output file per distinct base name.
C18_OneTextPerBaseName ==
  (ex.pc = "done" /\ ex.failed = {}) =>
    {o.name : o \in ex.out} =
      {output_filename(filename) : filename \in {f \in ex.listing : IsHtmlName(f)}}

\* C18: when extract_text_from_html_files_and_save returns and the processing
\* of every file succeeded, the number of distinct output files is the number
\* of names of the input directory that end in .html or .htm; and a failure
\* on one file does not keep the others from being processed.
C18_OneTextPerHtmlFile ==
  /\ (ex.pc = "done" /\ ex.failed = {}) =>
       Cardinality({o.name : o \in ex.out}) =
         Cardinality({filename \in ex.listing : IsHtmlName(filename)})
  /\ ex.pc = "done" =>
       \A filename \in ex.listing :
         IsHtmlName(filename) => filename \in ex.done \cup ex.failed

----------------------------------------------------------------------------
(* C21 *)

\* The call stack[i] fetched its URL without should_scrape_content: the
\* fetch of line 135, whose text is discarded.
HarvestFetch(i) == stack[i].pc # "enter" /\ ~stack[i].scrape

\* C21: a fetch made only for the links (line 135) happens only in the call
\* for the start URL, and only when max_pages_to_visit <= 0 or max_depth < 0;
\* every recursive call is entered with its URL not visited, its depth at
\* most max_depth and fewer than max_pages_to_visit pages extracted, so it
\* takes the branch of line 124.
C21_HarvestOnlyAtStart ==
  /\ \A i \in DOMAIN stack :
       HarvestFetch(i) =>
         /\ i = 1
         /\ stack[i].depth = 0
         /\ stack[i].url = args.start_url
         /\ (args.max_pages <= 0 \/ args.max_depth < 0)
  /\ \A i \in DOMAIN stack :
       (i > 1 /\ stack[i].pc = "enter") =>
         /\ stack[i].url \notin visited
         /\ stack[i].depth <= args.max_depth
         /\ Len(extracted) < args.max_pages
         /\ ShouldScrapeContent(stack[i].url, stack[i].depth)

\* The start page is fetched for its links alone (max_pages_to_visit = 0) and
\* its links are being recorded; nothing was extracted from it.
C21_Witness ==
  /\ phase = "crawling"
  /\ Len(stack) = 1
  /\ HarvestFetch(1)
  /\ stack[1].pc = "loop"
  /\ stack[1].links # <<>>
  /\ args.max_pages = 0
  /\ args.max_depth = 2
  /\ gotText = {args.start_url}
  /\ extracted = <<>>

----------------------------------------------------------------------------
(* C22 *)

\* extracted is the items of the list _all_extracted_content is bound to.
ContentIsBoundList == extracted = heap.objects[heap.content_id]

\* C22: the two lists a call of scrape_website_to_file returned keep the
\* items they had at the return, whatever later calls clear, rebind or
\* append.
C22_ReturnedListsUnchanged ==
  \A r \in heap.held :
    /\ heap.objects[r.content] = r.content_was
    /\ heap.objects[r.urls] = r.urls_was

\* A later call has returned with other content and another inventory than
\* the call whose lists the caller holds, through lists of its own.
C22_Witness ==
  /\ phase = "done"
  /\ \E r \in heap.held :
       /\ r.content_was # <<>>
       /\ heap.result # NoHandles
       /\ heap.result.content # r.content
       /\ heap.result.urls # r.urls
       /\ extracted # <<>>
       /\ extracted # r.content_was
       /\ returned.urls # r.urls_was

====
